---- MODULE Spec2Model ----
(***************************************************************************)
(* LogBuddy (src/src/main.rs): a command-line scanner that walks a         *)
(* directory tree, filters files by extension, counts lines, bytes, words  *)
(* and search hits, and prints a summary.                                  *)
(*                                                                         *)
(* Strings are sequences of bytes (naturals): "a.l" is <<97, 46, 108>>.    *)
(* An Option<T> is the empty sequence (None) or a one-element sequence     *)
(* (Some(x)).                                                              *)
(***************************************************************************)
EXTENDS Integers, Sequences, FiniteSets, TLC

VARIABLES
    args,           \* env::args().skip(1): the command line
    fs,             \* the directory tree on disk (never changes during a run)
    pc,             \* "start", "run", "walk", "unwind" or "exited"
    cfg,            \* Config, once from_args has returned Ok
    stack,          \* the active walk_dir calls, innermost last
    totals,         \* ScanTotals
    stdout,         \* [HIT] preview lines printed, and the summary once printed
    stderr,         \* usage, "Could not read" diagnostics and error messages
    exit_code,      \* the process's exit code, -1 while it runs
    ingested,       \* history: the files handed to process_file, in order
    read_dirs,      \* history: the directories whose read_dir succeeded, in order
    read_dir_calls, \* history: how many times read_dir was called
    t_text, t_i, t_out, t_pc    \* the tokenizer run on its own

tokvars == <<t_text, t_i, t_out, t_pc>>

scanvars ==
    <<args, fs, pc, cfg, stack, totals, stdout, stderr, exit_code, ingested,
      read_dirs, read_dir_calls>>

vars == <<scanvars, tokvars>>

----------------------------------------------------------------------------
(* Bounds of the model. *)

\* Longest text given to the tokenizer on its own.
MaxLen == 3

\* Directories of the tree, the root included, and files in it.
MaxDirs == 3

MaxFiles == 3

\* Longest command line.
MaxArgs == 4

\* Longest file name and longest --ext value in the extension runs.
MaxNameLen == 3

MaxExtLen == 3

\* Most lines matching the search term in one generated file.
MaxHitLines == 6

\* Largest --top value given in the report runs.
MaxTop == 3

----------------------------------------------------------------------------
(* Generic helpers. *)

None == <<>>

Some(x) == <<x>>

Min(a, b) == IF a <= b THEN a ELSE b

\* All sequences over S of length at most n.
SeqsUpTo(S, n) == UNION {[1..k -> S] : k \in 0..n}

----------------------------------------------------------------------------
(* Text primitives of the standard library, as the program uses them. *)

\* u8::to_ascii_lowercase on one byte; str::to_lowercase restricted to ASCII
\* text, which is the only text the model feeds it.
LowerByte(b) == IF b >= 65 /\ b <= 90 THEN b + 32 ELSE b

to_lowercase(s) == [k \in 1..Len(s) |-> LowerByte(s[k])]

\* &text[start..end] with 0-based, end-exclusive byte offsets.
Slice(s, start, end) == SubSeq(s, start + 1, end)

----------------------------------------------------------------------------
(* tokenize_words / is_word_char *)

is_word_char(b) ==
    \/ b >= 65 /\ b <= 90       \* b'A'..=b'Z'
    \/ b >= 97 /\ b <= 122      \* b'a'..=b'z'
    \/ b >= 48 /\ b <= 57       \* b'0'..=b'9'
    \/ b = 95                   \* b'_'

\* while i < bytes.len() && !is_word_char(bytes[i]) { i += 1; }
RECURSIVE SkipNonWord(_, _)
SkipNonWord(bytes, i) ==
    IF i < Len(bytes) /\ ~is_word_char(bytes[i + 1])
    THEN SkipNonWord(bytes, i + 1)
    ELSE i

\* while i < bytes.len() && is_word_char(bytes[i]) { i += 1; }
RECURSIVE ConsumeWord(_, _)
ConsumeWord(bytes, i) ==
    IF i < Len(bytes) /\ is_word_char(bytes[i + 1])
    THEN ConsumeWord(bytes, i + 1)
    ELSE i

TokIter_NoLowercase(bytes, i) ==
    LET start == SkipNonWord(bytes, i)
        end == ConsumeWord(bytes, start)
    IN  [i |-> end,
         push |-> IF end > start THEN <<Slice(bytes, start, end)>> ELSE <<>>]

\* One iteration of the outer loop, entered with i < bytes.len(): the new i
\* and the tokens pushed (none or one).
TokIter(bytes, i) ==
    LET start == SkipNonWord(bytes, i)
        end == ConsumeWord(bytes, start)
    IN  [i |-> end,
         push |-> IF end > start
                  THEN <<to_lowercase(Slice(bytes, start, end))>>
                  ELSE <<>>]

RECURSIVE TokLoop(_, _, _)
TokLoop(bytes, i, out) ==
    IF i < Len(bytes)
    THEN LET r == TokIter(bytes, i) IN TokLoop(bytes, r.i, out \o r.push)
    ELSE out

tokenize_words(text) == TokLoop(text, 0, <<>>)

----------------------------------------------------------------------------
(* More of the standard library, as the program uses it. *)

\* The byte offsets (1-based) of the line feeds of s.
LineFeeds(s) == {k \in 1..Len(s) : s[k] = 10}

\* str::lines: split after every "\n"; a line loses its "\n" and then one
\* "\r" before it; a last line without "\n" is kept as it is, an empty rest
\* after the last "\n" is no line.
RECURSIVE Lines(_)
Lines(s) ==
    IF s = <<>> THEN <<>>
    ELSE IF LineFeeds(s) = {} THEN <<s>>
    ELSE LET nl == CHOOSE k \in LineFeeds(s) : \A j \in LineFeeds(s) : k <= j
             body == SubSeq(s, 1, nl - 1)
             line == IF Len(body) > 0 /\ body[Len(body)] = 13
                     THEN SubSeq(body, 1, Len(body) - 1)
                     ELSE body
         IN  <<line>> \o Lines(SubSeq(s, nl + 1, Len(s)))

\* str::contains with a string pattern.
Contains(hay, needle) ==
    \E k \in 0..(Len(hay) - Len(needle)) :
        SubSeq(hay, k + 1, k + Len(needle)) = needle

\* str::trim_start_matches('.'): every leading '.' is removed.
RECURSIVE TrimStartDots(_)
TrimStartDots(s) ==
    IF Len(s) > 0 /\ s[1] = 46 THEN TrimStartDots(Tail(s)) ELSE s

\* OsStr::to_str: None unless the bytes are UTF-8. File names of the model
\* hold ASCII bytes and 0xFF, which no UTF-8 text contains.
ToStr(s) == IF \A k \in 1..Len(s) : s[k] < 128 THEN Some(s) ELSE None

\* Path::extension of a file name: None without a '.', or when the only '.'
\* starts the name, or for ".."; otherwise what follows the last '.'.
Extension(name) ==
    LET dots == {k \in 1..Len(name) : name[k] = 46}
    IN  IF name = <<46, 46>> \/ dots = {} THEN None
        ELSE LET d == CHOOSE k \in dots : \A j \in dots : j <= k
             IN  IF d = 1 THEN None ELSE Some(SubSeq(name, d + 1, Len(name)))

\* The value of a string of ASCII digits.
RECURSIVE DigitsValue(_)
DigitsValue(s) ==
    IF s = <<>> THEN 0
    ELSE 10 * DigitsValue(SubSeq(s, 1, Len(s) - 1)) + (s[Len(s)] - 48)

\* str::parse::<usize>: an optional '+', then one digit or more. (Values of
\* the model are far below usize::MAX, so the overflow error never arises.)
ParseUsize(s) ==
    LET digits == IF Len(s) > 0 /\ s[1] = 43 THEN Tail(s) ELSE s
    IN  IF Len(digits) > 0 /\ \A k \in 1..Len(digits) : digits[k] \in 48..57
        THEN Some(DigitsValue(digits))
        ELSE None

----------------------------------------------------------------------------
(* Config::from_args *)

S_path == <<45, 45, 112, 97, 116, 104>>     \* "--path"

S_ext == <<45, 45, 101, 120, 116>>          \* "--ext"

S_top == <<45, 45, 116, 111, 112>>          \* "--top"

S_find == <<45, 45, 102, 105, 110, 100>>    \* "--find"

S_help == <<45, 45, 104, 101, 108, 112>>    \* "--help"

S_h == <<45, 104>>                          \* "-h"

\* let mut top: usize = 10;
DefaultTop == 10

\* The locals of from_args before its loop.
EmptyCfg == [path |-> None, ext |-> None, top |-> DefaultTop, find |-> None]

ArgErr(msg) == [kind |-> "err", msg |-> msg]

\* The loop of from_args from argument i on (1-based), c its locals; then the
\* check for --path. print_usage(); exit(0) is the result "help".
RECURSIVE ParseLoop(_, _, _)
ParseLoop(a, i, c) ==
    IF i > Len(a)
    THEN IF c.path = None
         THEN ArgErr("You must provide --path <folder>")
         ELSE [kind |-> "ok", cfg |-> [c EXCEPT !.path = c.path[1]]]
    ELSE IF a[i] = S_path
    THEN IF i + 1 > Len(a) THEN ArgErr("Missing value for --path")
         ELSE ParseLoop(a, i + 2, [c EXCEPT !.path = Some(a[i + 1])])
    ELSE IF a[i] = S_ext
    THEN IF i + 1 > Len(a) THEN ArgErr("Missing value for --ext")
         ELSE ParseLoop(a, i + 2, [c EXCEPT !.ext = Some(a[i + 1])])
    ELSE IF a[i] = S_top
    THEN IF i + 1 > Len(a) THEN ArgErr("Missing value for --top")
         ELSE IF ParseUsize(a[i + 1]) = None
         THEN ArgErr("Invalid number for --top")
         ELSE ParseLoop(a, i + 2, [c EXCEPT !.top = ParseUsize(a[i + 1])[1]])
    ELSE IF a[i] = S_find
    THEN IF i + 1 > Len(a) THEN ArgErr("Missing value for --find")
         ELSE ParseLoop(a, i + 2, [c EXCEPT !.find = Some(a[i + 1])])
    ELSE IF a[i] = S_help \/ a[i] = S_h
    THEN [kind |-> "help"]
    ELSE ArgErr("Unknown flag")

from_args_HelpFirst(a) ==
    IF \E i \in 1..Len(a) : a[i] = S_help \/ a[i] = S_h
    THEN [kind |-> "help"]
    ELSE ParseLoop(a, 1, EmptyCfg)

from_args_TopDefaults(a) ==
    IF ParseLoop(a, 1, EmptyCfg) = ArgErr("Invalid number for --top")
    THEN [kind |-> "ok", cfg |-> [EmptyCfg EXCEPT !.path = <<114>>]]
    ELSE ParseLoop(a, 1, EmptyCfg)

from_args(a) == ParseLoop(a, 1, EmptyCfg)

----------------------------------------------------------------------------
(* The directory tree. *)

\* Directory 1 is the root; fs.parent[d] is the directory holding d.
Dirs == 1..MaxDirs

Files == 1..MaxFiles

\* The one path that names the tree's root, "r"; read_dir of any other path
\* fails.
RootPath == <<114>>

\* fs.fault: the directory whose enumeration fails, when one does: read_dir
\* itself fails ("open"), or an entry of its iterator is an Err ("entry").
\* The scan stops at the first failure it meets, so one is enough.
NoFault == [dir |-> 0, mode |-> "none"]

Faults == {NoFault} \cup [dir : Dirs, mode : {"open", "entry"}]

DirEntry(d) == [k |-> "d", id |-> d]

FileEntry(f) == [k |-> "f", id |-> f]

\* What read_dir(d) yields, in no particular order.
Children(d) ==
    {DirEntry(c) : c \in {c \in Dirs : c > 1 /\ fs.parent[c] = d}}
        \cup {FileEntry(f) : f \in {f \in Files : fs.fdir[f] = d}}

\* fs::read_dir(d) returns Ok.
ReadDirOk(d) == ~(fs.fault.dir = d /\ fs.fault.mode = "open")

\* The iterator of read_dir(d) yields an Err at some point.
EntryFails(d) == fs.fault.dir = d /\ fs.fault.mode = "entry"

----------------------------------------------------------------------------
(* Scanner::process_file *)

\* ScanTotals::default(); word_counts is a function from the words counted
\* to their counts.
DefaultTotals ==
    [files_scanned |-> 0, total_lines |-> 0, total_bytes |-> 0, hits |-> 0,
     word_counts |-> <<>>]

\* if local_hits <= 5
PreviewCap == 5

\* The search loop over the lines from line n on (1-based, as printed):
\* local_hits so far, and the [HIT] lines printed so far by this call.
RECURSIVE SearchLoop(_, _, _, _, _, _)
SearchLoop(f, lines, n, needle_lower, local_hits, printed) ==
    IF n > Len(lines) THEN [local_hits |-> local_hits, printed |-> printed]
    ELSE IF Contains(to_lowercase(lines[n]), needle_lower)
    THEN SearchLoop(f, lines, n + 1, needle_lower, local_hits + 1,
                    IF local_hits + 1 <= PreviewCap
                    THEN Append(printed, [file |-> f, line_no |-> n])
                    ELSE printed)
    ELSE SearchLoop(f, lines, n + 1, needle_lower, local_hits, printed)

Search_NoCap(f, content, find) ==
    IF find = None THEN [local_hits |-> 0, printed |-> <<>>]
    ELSE LET lines == Lines(content)
             hit == {n \in 1..Len(lines) :
                        Contains(to_lowercase(lines[n]), to_lowercase(find[1]))}
         IN  [local_hits |-> Cardinality(hit),
              printed |-> [i \in 1..Cardinality(hit) |->
                  [file |-> f,
                   line_no |-> CHOOSE n \in hit :
                                  Cardinality({m \in hit : m < n}) = i - 1]]]

\* The search block of process_file; without a search term nothing happens.
Search(f, content, find) ==
    IF find = None THEN [local_hits |-> 0, printed |-> <<>>]
    ELSE SearchLoop(f, Lines(content), 1, to_lowercase(find[1]), 0, <<>>)

\* *word_counts.entry(word).or_insert(0) += 1, for each word in turn.
RECURSIVE CountWords(_, _)
CountWords(wc, words) ==
    IF words = <<>> THEN wc
    ELSE LET w == Head(words)
             wc1 == IF w \in DOMAIN wc
                    THEN [wc EXCEPT ![w] = @ + 1]
                    ELSE [x \in DOMAIN wc \cup {w} |->
                             IF x = w THEN 0 + 1 ELSE wc[x]]
         IN  CountWords(wc1, Tail(words))

ProcessFileOk_CountsOnce(t, f, content, find) ==
    [files_scanned |-> t.files_scanned + 1,
     total_lines |-> t.total_lines + Len(Lines(content)),
     total_bytes |-> t.total_bytes + Len(content),
     hits |-> t.hits + Search(f, content, find).local_hits,
     word_counts |->
        [w \in DOMAIN t.word_counts
               \cup {tokenize_words(content)[k] :
                        k \in 1..Len(tokenize_words(content))} |->
            IF w \in DOMAIN t.word_counts THEN t.word_counts[w] ELSE 1]]

\* The totals after process_file has read content from file f.
ProcessFileOk(t, f, content, find) ==
    [files_scanned |-> t.files_scanned + 1,
     total_lines |-> t.total_lines + Len(Lines(content)),
     total_bytes |-> t.total_bytes + Len(content),
     hits |-> t.hits + Search(f, content, find).local_hits,
     word_counts |-> CountWords(t.word_counts, tokenize_words(content))]

----------------------------------------------------------------------------
(* Scanner::print_summary *)

\* The orders a HashMap may iterate its keys in: any.
IterOrders(keys) ==
    {o \in [1..Cardinality(keys) -> keys] :
        \A i, j \in 1..Cardinality(keys) : i # j => o[i] # o[j]}

\* pairs.sort_by(|a, b| b.1.cmp(a.1)), a stable sort: highest counts first,
\* equal counts in the order the map iterated them.
SortedPairs(wc, order) ==
    LET n == Len(order)
        Rank(i) ==
            Cardinality({j \in 1..n :
                \/ wc[order[j]] > wc[order[i]]
                \/ wc[order[j]] = wc[order[i]] /\ j < i})
    IN  [r \in 1..n |->
            LET i == CHOOSE i \in 1..n : Rank(i) = r - 1
            IN  [word |-> order[i], count |-> wc[order[i]]]]

\* pairs.into_iter().take(top)
TopWords(wc, order, top) ==
    SubSeq(SortedPairs(wc, order), 1, Min(top, Len(order)))

\* What print_summary prints, the map iterating in the given order.
Summary(c, t, order) ==
    [path |-> c.path,
     ext |-> c.ext,
     find |-> c.find,
     hits |-> IF c.find = None THEN None ELSE Some(t.hits),
     files |-> t.files_scanned,
     lines |-> t.total_lines,
     bytes |-> t.total_bytes,
     top |-> c.top,
     words |-> TopWords(t.word_counts, order, c.top)]

----------------------------------------------------------------------------
(* main, Scanner::run, Scanner::walk_dir *)

NoOutput == [hits |-> <<>>, summary |-> None]

NoErrors == [usage |-> FALSE, could_not_read |-> <<>>, error |-> None]

Top == stack[Len(stack)]

Pop(s) == SubSeq(s, 1, Len(s) - 1)

\* The extension test of walk_dir: true when the file goes on to
\* process_file.
PassesFilter_IgnoreCase(name, ext) ==
    \/ ext = None
    \/ LET want == TrimStartDots(ext[1])
           e == Extension(name)
           actual == IF e = None \/ ToStr(e[1]) = None THEN <<>> ELSE e[1]
       IN  to_lowercase(actual) = to_lowercase(want)

PassesFilter(name, ext) ==
    \/ ext = None
    \/ LET want == TrimStartDots(ext[1])
           e == Extension(name)
           actual == IF e = None \/ ToStr(e[1]) = None THEN <<>> ELSE e[1]
       IN  actual = want

\* main up to Scanner::new: from_args, and the exits on --help (in from_args)
\* and on an argument error.
Main ==
    /\ pc = "start"
    /\ LET r == from_args(args)
       IN  CASE r.kind = "help" ->
                  /\ stderr' = [stderr EXCEPT !.usage = TRUE]
                  /\ exit_code' = 0
                  /\ pc' = "exited"
                  /\ UNCHANGED <<cfg, totals>>
             [] r.kind = "err" ->
                  /\ stderr' = [stderr EXCEPT !.usage = TRUE,
                                              !.error = Some(r.msg)]
                  /\ exit_code' = 2
                  /\ pc' = "exited"
                  /\ UNCHANGED <<cfg, totals>>
             [] r.kind = "ok" ->
                  /\ cfg' = r.cfg
                  /\ totals' = DefaultTotals
                  /\ pc' = "run"
                  /\ UNCHANGED <<stderr, exit_code>>
    /\ UNCHANGED <<args, fs, stack, stdout, ingested, read_dirs,
                   read_dir_calls, tokvars>>

\* run: the call walk_dir(&root), up to its read_dir.
Run ==
    /\ pc = "run"
    /\ read_dir_calls' = read_dir_calls + 1
    /\ IF cfg.path = RootPath /\ ReadDirOk(1)
       THEN /\ stack' = <<[dir |-> 1, todo |-> Children(1)]>>
            /\ read_dirs' = Append(read_dirs, 1)
            /\ pc' = "walk"
       ELSE /\ pc' = "unwind"
            /\ UNCHANGED <<stack, read_dirs>>
    /\ UNCHANGED <<args, fs, cfg, totals, stdout, stderr, exit_code, ingested,
                   tokvars>>

WalkDirEntry_SkipsSubdirs ==
    /\ pc = "walk"
    /\ stack # <<>>
    /\ \E e \in Top.todo :
        /\ e.k = "d"
        /\ stack' = [stack EXCEPT ![Len(stack)].todo = @ \ {e}]
    /\ UNCHANGED <<args, fs, pc, cfg, totals, stdout, stderr, exit_code,
                   ingested, read_dirs, read_dir_calls, tokvars>>

WalkDirEntry_IgnoresErr ==
    /\ pc = "walk"
    /\ stack # <<>>
    /\ \E e \in Top.todo :
        /\ e.k = "d"
        /\ read_dir_calls' = read_dir_calls + 1
        /\ IF ReadDirOk(e.id)
           THEN /\ stack' = Append([stack EXCEPT ![Len(stack)].todo = @ \ {e}],
                                   [dir |-> e.id, todo |-> Children(e.id)])
                /\ read_dirs' = Append(read_dirs, e.id)
           ELSE /\ stack' = [stack EXCEPT ![Len(stack)].todo = @ \ {e}]
                /\ UNCHANGED read_dirs
    /\ UNCHANGED <<args, fs, pc, cfg, totals, stdout, stderr, exit_code,
                   ingested, tokvars>>

\* One iteration of walk_dir's loop on a directory entry: the recursive call,
\* up to its read_dir.
WalkDirEntry ==
    /\ pc = "walk"
    /\ stack # <<>>
    /\ \E e \in Top.todo :
        /\ e.k = "d"
        /\ read_dir_calls' = read_dir_calls + 1
        /\ IF ReadDirOk(e.id)
           THEN /\ stack' = Append([stack EXCEPT ![Len(stack)].todo = @ \ {e}],
                                   [dir |-> e.id, todo |-> Children(e.id)])
                /\ read_dirs' = Append(read_dirs, e.id)
                /\ pc' = "walk"
           ELSE /\ stack' = [stack EXCEPT ![Len(stack)].todo = @ \ {e}]
                /\ pc' = "unwind"
                /\ UNCHANGED read_dirs
    /\ UNCHANGED <<args, fs, cfg, totals, stdout, stderr, exit_code, ingested,
                   tokvars>>

WalkFileEntry_FailAborts ==
    /\ pc = "walk"
    /\ stack # <<>>
    /\ \E e \in Top.todo :
        /\ e.k = "f"
        /\ stack' = [stack EXCEPT ![Len(stack)].todo = @ \ {e}]
        /\ IF ~PassesFilter(fs.fname[e.id], cfg.ext)
           THEN UNCHANGED <<totals, stdout, stderr, ingested, pc>>
           ELSE /\ ingested' = Append(ingested, e.id)
                /\ IF fs.fcontent[e.id] = None
                   THEN /\ stderr' = [stderr EXCEPT !.could_not_read =
                                                        Append(@, e.id)]
                        /\ pc' = "unwind"
                        /\ UNCHANGED <<totals, stdout>>
                   ELSE /\ totals' = ProcessFileOk(totals, e.id,
                                         fs.fcontent[e.id][1], cfg.find)
                        /\ stdout' = [stdout EXCEPT !.hits = @ \o
                                         Search(e.id, fs.fcontent[e.id][1],
                                                cfg.find).printed]
                        /\ UNCHANGED <<stderr, pc>>
    /\ UNCHANGED <<args, fs, cfg, exit_code, read_dirs, read_dir_calls,
                   tokvars>>

\* One iteration of walk_dir's loop on a file entry: the extension filter,
\* then process_file.
WalkFileEntry ==
    /\ pc = "walk"
    /\ stack # <<>>
    /\ \E e \in Top.todo :
        /\ e.k = "f"
        /\ stack' = [stack EXCEPT ![Len(stack)].todo = @ \ {e}]
        /\ IF ~PassesFilter(fs.fname[e.id], cfg.ext)
           THEN UNCHANGED <<totals, stdout, stderr, ingested>>
           ELSE /\ ingested' = Append(ingested, e.id)
                /\ IF fs.fcontent[e.id] = None
                   THEN /\ stderr' = [stderr EXCEPT !.could_not_read =
                                                        Append(@, e.id)]
                        /\ UNCHANGED <<totals, stdout>>
                   ELSE /\ totals' = ProcessFileOk(totals, e.id,
                                         fs.fcontent[e.id][1], cfg.find)
                        /\ stdout' = [stdout EXCEPT !.hits = @ \o
                                         Search(e.id, fs.fcontent[e.id][1],
                                                cfg.find).printed]
                        /\ UNCHANGED stderr
    /\ UNCHANGED <<args, fs, pc, cfg, exit_code, read_dirs, read_dir_calls,
                   tokvars>>

\* let entry = entry?; on an Err of the iterator.
WalkEntryErr ==
    /\ pc = "walk"
    /\ stack # <<>>
    /\ EntryFails(Top.dir)
    /\ pc' = "unwind"
    /\ UNCHANGED <<args, fs, cfg, stack, totals, stdout, stderr, exit_code,
                   ingested, read_dirs, read_dir_calls, tokvars>>

\* A walk_dir call returns the Err to its caller (the ? of the failing
\* expression, then of self.walk_dir(&path)? in each enclosing call).
WalkPropagate ==
    /\ pc = "unwind"
    /\ stack # <<>>
    /\ stack' = Pop(stack)
    /\ UNCHANGED <<args, fs, pc, cfg, totals, stdout, stderr, exit_code,
                   ingested, read_dirs, read_dir_calls, tokvars>>

\* run returns the Err (self.walk_dir(&root)?), and main exits with 1.
RunErr ==
    /\ pc = "unwind"
    /\ stack = <<>>
    /\ stderr' = [stderr EXCEPT !.error = Some("Error")]
    /\ exit_code' = 1
    /\ pc' = "exited"
    /\ UNCHANGED <<args, fs, cfg, stack, totals, stdout, ingested, read_dirs,
                   read_dir_calls, tokvars>>

\* The loop of a walk_dir call ends and the call returns Ok(()).
WalkReturn ==
    /\ pc = "walk"
    /\ stack # <<>>
    /\ Top.todo = {}
    /\ ~EntryFails(Top.dir)
    /\ stack' = Pop(stack)
    /\ UNCHANGED <<args, fs, pc, cfg, totals, stdout, stderr, exit_code,
                   ingested, read_dirs, read_dir_calls, tokvars>>

\* walk_dir(&root) has returned Ok: print_summary, Ok(()), and main returns.
RunFinish ==
    /\ pc = "walk"
    /\ stack = <<>>
    /\ \E order \in IterOrders(DOMAIN totals.word_counts) :
          stdout' = [stdout EXCEPT !.summary = Some(Summary(cfg, totals, order))]
    /\ exit_code' = 0
    /\ pc' = "exited"
    /\ UNCHANGED <<args, fs, cfg, stack, totals, stderr, ingested, read_dirs,
                   read_dir_calls, tokvars>>

Next ==
    \/ Main
    \/ Run
    \/ WalkDirEntry
    \/ WalkFileEntry
    \/ WalkEntryErr
    \/ WalkPropagate
    \/ RunErr
    \/ WalkReturn
    \/ RunFinish

----------------------------------------------------------------------------
(* The runs checked: the same program, on different families of inputs. *)

RECURSIVE Repeat(_, _)
Repeat(s, k) == IF k = 0 THEN <<>> ELSE s \o Repeat(s, k - 1)

\* "x\nE x": two lines, the second without its line feed.
Mixed == <<120, 10, 69, 32, 120>>

\* k lines "E\n".
HitLines(k) == Repeat(<<69, 10>>, k)

\* Every tree on Dirs rooted at 1 (a directory lies in one of a lower number).
Shapes ==
    {p \in [Dirs -> 0..MaxDirs] :
        p[1] = 0 /\ \A d \in Dirs : d > 1 => (p[d] >= 1 /\ p[d] < d)}

\* Each directory in the one before it.
ChainShape == [d \in Dirs |-> d - 1]

\* Every way to put the files in the directories; files being alike, only
\* the ways with the files in directory order.
Placements ==
    {q \in [Files -> Dirs] : \A f \in Files : f > 1 => q[f - 1] <= q[f]}

\* The files dealt to the directories in turn.
RoundRobin == [f \in Files |-> ((f - 1) % MaxDirs) + 1]

\* "a.a" for odd files, "a" for even ones.
DefaultNames == [f \in Files |-> IF f % 2 = 1 THEN <<97, 46, 97>> ELSE <<97>>]

\* The last file cannot be read, the others hold Mixed.
DefaultContents == [f \in Files |-> IF f = MaxFiles THEN None ELSE Some(Mixed)]

\* No failure, or the iterator of directory 2 yielding an Err.
FewFaults == {NoFault, [dir |-> 2, mode |-> "entry"]}

ScanInit(argsSet, fsSet) ==
    /\ args \in argsSet
    /\ fs \in fsSet
    /\ pc = "start"
    /\ cfg = EmptyCfg
    /\ stack = <<>>
    /\ totals = DefaultTotals
    /\ stdout = NoOutput
    /\ stderr = NoErrors
    /\ exit_code = -1
    /\ ingested = <<>>
    /\ read_dirs = <<>>
    /\ read_dir_calls = 0
    /\ t_text = <<>>
    /\ t_i = 0
    /\ t_out = <<>>
    /\ t_pc = "idle"

\* The walk: every tree shape, every placement of readable and unreadable
\* files, every enumeration failure, a search term configured. The files
\* being alike but for their directory and readability, only the trees with
\* the files in that order.
WalkArgs == {<<S_path, RootPath, S_find, <<101>>>>}

WalkKey(x, f) == 2 * x.fdir[f] + (IF x.fcontent[f] = None THEN 0 ELSE 1)

WalkFs ==
    {x \in [parent : Shapes, fdir : Placements, fname : {DefaultNames},
            fcontent : [Files -> {None, Some(Mixed)}], fault : Faults] :
        \A f \in Files : f > 1 => WalkKey(x, f - 1) <= WalkKey(x, f)}

Init == ScanInit(WalkArgs, WalkFs)

Spec == Init /\ [][Next]_vars

\* Ingestion: every file's content varies: unreadable, empty, Mixed, or from
\* one line short of the preview cap to MaxHitLines lines "E"; without a
\* search term and with the term "e" written in upper case.
IngestArgs == {<<S_path, RootPath>>, <<S_path, RootPath, S_find, <<69>>>>}

\* All files lie in the deepest directory.
Deepest == [f \in Files |-> MaxDirs]

IngestContents ==
    <<None, Some(<<>>), Some(Mixed)>>
        \o [k \in 1..(MaxHitLines - PreviewCap + 2) |->
               Some(HitLines(PreviewCap - 2 + k))]

\* The files of one directory being alike but for their content, only the
\* trees with the files in the order of IngestContents.
IngestFs ==
    {[parent |-> ChainShape, fdir |-> Deepest, fname |-> DefaultNames,
      fcontent |-> [f \in Files |-> IngestContents[c[f]]], fault |-> x] :
        c \in {c \in [Files -> 1..Len(IngestContents)] :
                  \A f \in Files : f > 1 => c[f - 1] <= c[f]},
        x \in FewFaults}

InitIngest == ScanInit(IngestArgs, IngestFs)

SpecIngest == InitIngest /\ [][Next]_vars

\* The extension filter: the first file's name and the --ext value vary.
NameAlphabet == {97, 65, 46}

\* File names: not empty, not "." or ".."; two hold a byte that is not UTF-8.
Names ==
    (SeqsUpTo(NameAlphabet, MaxNameLen) \ {<<>>, <<46>>, <<46, 46>>})
        \cup {<<97, 46, 255>>, <<97, 46, 97, 255>>}

ExtArgs ==
    {<<S_path, RootPath>>}
        \cup {<<S_path, RootPath, S_ext, v>> : v \in SeqsUpTo(NameAlphabet, MaxExtLen)}

ExtFs ==
    [parent : {ChainShape}, fdir : {RoundRobin},
     fname : {[f \in Files |-> IF f = 1 THEN n ELSE DefaultNames[f]] : n \in Names},
     fcontent : {DefaultContents}, fault : FewFaults]

InitExt == ScanInit(ExtArgs, ExtFs)

SpecExt == InitExt /\ [][Next]_vars

\* The command line: every list of at most MaxArgs arguments.
ArgTokens ==
    {S_path, S_ext, S_top, S_find, S_help, S_h,
     <<45, 45, 120>>,       \* "--x", no flag of the program
     RootPath,              \* "r"
     <<97>>,                \* "a"
     <<49>>}                \* "1"

ArgsFs ==
    [parent : {ChainShape}, fdir : {RoundRobin}, fname : {DefaultNames},
     fcontent : {DefaultContents}, fault : FewFaults]

InitArgs == ScanInit(SeqsUpTo(ArgTokens, MaxArgs), ArgsFs)

SpecArgs == InitArgs /\ [][Next]_vars

\* The report: --top from 0 to MaxTop or left out, files of few words with
\* and without equal counts.
TopArgs ==
    {<<S_path, RootPath>>}
        \cup {<<S_path, RootPath, S_top, <<48 + n>>>> : n \in 0..MaxTop}

\* "", "x", "x e", "e x x", "x e y"
TopContents ==
    {None, Some(<<>>), Some(<<120>>), Some(<<120, 32, 101>>),
     Some(<<101, 32, 120, 32, 120>>), Some(<<120, 32, 101, 32, 121>>)}

TopFs ==
    [parent : {ChainShape}, fdir : {RoundRobin}, fname : {DefaultNames},
     fcontent : [Files -> TopContents], fault : FewFaults]

InitTop == ScanInit(TopArgs, TopFs)

SpecTop == InitTop /\ [][Next]_vars

----------------------------------------------------------------------------
(* The tokenizer on its own, one outer-loop iteration per step. *)

\* Bytes at both edges of every range is_word_char tests, and separators.
TokAlphabet == {32, 47, 48, 57, 58, 64, 65, 90, 91, 95, 96, 97, 122, 123}

\* "Error: code=42!!"
ExampleText ==
    <<69, 114, 114, 111, 114, 58, 32, 99, 111, 100, 101, 61, 52, 50, 33, 33>>

\* ["error", "code", "42"]
ExampleTokens == <<<<101, 114, 114, 111, 114>>, <<99, 111, 100, 101>>, <<52, 50>>>>

TokInputs == SeqsUpTo(TokAlphabet, MaxLen) \cup {ExampleText}

\* No scan runs: the scanner's state stays as after construction.
InitTok ==
    /\ t_text \in TokInputs
    /\ t_i = 0
    /\ t_out = <<>>
    /\ t_pc = "loop"
    /\ args = <<>>
    /\ fs = [parent |-> ChainShape, fdir |-> RoundRobin, fname |-> DefaultNames,
             fcontent |-> DefaultContents, fault |-> NoFault]
    /\ pc = "idle"
    /\ cfg = EmptyCfg
    /\ stack = <<>>
    /\ totals = DefaultTotals
    /\ stdout = NoOutput
    /\ stderr = NoErrors
    /\ exit_code = -1
    /\ ingested = <<>>
    /\ read_dirs = <<>>
    /\ read_dir_calls = 0

TokStep ==
    /\ t_pc = "loop"
    /\ t_i < Len(t_text)
    /\ LET r == TokIter(t_text, t_i)
       IN  /\ t_i' = r.i
           /\ t_out' = t_out \o r.push
    /\ UNCHANGED <<t_text, t_pc, scanvars>>

TokReturn ==
    /\ t_pc = "loop"
    /\ ~(t_i < Len(t_text))
    /\ t_pc' = "done"
    /\ UNCHANGED <<t_text, t_i, t_out, scanvars>>

NextTok == TokStep \/ TokReturn

SpecTok == InitTok /\ [][NextTok]_vars /\ WF_vars(NextTok)

----------------------------------------------------------------------------
(* C9 *)

\* The claim's own notion of a word character and of a lowercase one.
WordByte(b) == b \in (65..90) \cup (97..122) \cup (48..57) \cup {95}

LowerWordByte(b) == b \in (97..122) \cup (48..57) \cup {95}

\* 1-based positions where a maximal run of word characters starts.
RunStarts(s) ==
    {p \in 1..Len(s) : WordByte(s[p]) /\ (p = 1 \/ ~WordByte(s[p - 1]))}

\* Last position of the maximal run starting at p.
RunEnd(s, p) ==
    CHOOSE e \in p..Len(s) :
        /\ \A q \in p..e : WordByte(s[q])
        /\ (e = Len(s) \/ ~WordByte(s[e + 1]))

\* The k-th run start from the left.
NthStart(s, k) ==
    CHOOSE p \in RunStarts(s) : Cardinality({q \in RunStarts(s) : q < p}) = k - 1

\* ASCII case folding as the claim states it.
Fold(b) == IF b \in 65..90 THEN b + 32 ELSE b

\* The maximal runs of word characters, left to right, each lowercased.
MaximalRuns(s) ==
    [k \in 1..Cardinality(RunStarts(s)) |->
        LET p == NthStart(s, k)
            e == RunEnd(s, p)
        IN  [j \in 1..(e - p + 1) |-> Fold(s[p + j - 1])]]

C9_Result ==
    t_pc = "done" =>
        /\ t_out = MaximalRuns(t_text)
        /\ t_out = tokenize_words(t_text)
        /\ \A k \in 1..Len(t_out) :
              /\ Len(t_out[k]) > 0
              /\ \A j \in 1..Len(t_out[k]) : LowerWordByte(t_out[k][j])
        /\ (t_text = ExampleText => t_out = ExampleTokens)

\* C9: on every input the tokenizer's loop terminates, and what it returns is
\* exactly the maximal runs of word characters (ASCII letter, digit,
\* underscore) of the input, left to right, each lowercased: no token is
\* empty, every token holds only lowercase letters, digits and underscore,
\* and "Error: code=42!!" gives ["error", "code", "42"].
C9_Tokenizer == []C9_Result /\ <>(t_pc = "done")

\* A text with separators, mixed case, a digit and an underscore run has been
\* tokenized into more than one token.
C9_Witness ==
    /\ t_pc = "done"
    /\ Len(t_out) >= 2
    /\ \E k \in 1..Len(t_text) : t_text[k] \in 65..90
    /\ \E k \in 1..Len(t_text) : ~WordByte(t_text[k])

----------------------------------------------------------------------------
(* What the claims speak of, stated on the tree itself. *)

\* The sum of the values of a function with a finite domain.
RECURSIVE SumFn(_)
SumFn(f) ==
    IF DOMAIN f = {} THEN 0
    ELSE LET x == CHOOSE x \in DOMAIN f : TRUE
         IN  f[x] + SumFn([y \in DOMAIN f \ {x} |-> f[y]])

SeqToSet(s) == {s[k] : k \in 1..Len(s)}

NoRepeats(s) == \A i, j \in 1..Len(s) : i # j => s[i] # s[j]

Readable(f) == fs.fcontent[f] # None

Content(f) == fs.fcontent[f][1]

\* Lines of a text: one per line feed, and one more for a last line that
\* does not end in a line feed.
LineCount(s) ==
    Cardinality({k \in 1..Len(s) : s[k] = 10})
        + (IF Len(s) > 0 /\ s[Len(s)] # 10 THEN 1 ELSE 0)

\* Depth of a directory: 0 for the root.
RECURSIVE Depth(_)
Depth(d) == IF d = 1 THEN 0 ELSE 1 + Depth(fs.parent[d])

Exited == pc = "exited"

SummaryPrinted == stdout.summary # None

----------------------------------------------------------------------------
(* C10 *)

\* C10: on a tree where every directory can be enumerated, a run without an
\* extension filter enters every directory exactly once and hands every file,
\* at every depth, to process_file exactly once, in whatever order the
\* entries come; it then ends with exit code 0 and a summary in which the
\* file count is the number of readable files of the whole tree and the line
\* and byte counts are the sums over those files.
C10_WalkVisitsAll ==
    /\ NoRepeats(read_dirs)
    /\ NoRepeats(ingested)
    /\ (Exited /\ fs.fault = NoFault /\ cfg.ext = None) =>
          /\ exit_code = 0
          /\ SummaryPrinted
          /\ SeqToSet(read_dirs) = Dirs
          /\ SeqToSet(ingested) = Files
          /\ LET R == {f \in Files : Readable(f)}
                 s == stdout.summary[1]
             IN  /\ totals.files_scanned = Cardinality(R)
                 /\ totals.total_lines = SumFn([f \in R |-> LineCount(Content(f))])
                 /\ totals.total_bytes = SumFn([f \in R |-> Len(Content(f))])
                 /\ s.files = totals.files_scanned
                 /\ s.lines = totals.total_lines
                 /\ s.bytes = totals.total_bytes

\* A finished run over a tree two levels deep, with a readable file in the
\* deepest directory, another in the root, and a file that cannot be read.
C10_Witness ==
    /\ Exited
    /\ fs.fault = NoFault
    /\ SummaryPrinted
    /\ \E d \in Dirs : Depth(d) = 2 /\ \E f \in Files : fs.fdir[f] = d /\ Readable(f)
    /\ \E f \in Files : fs.fdir[f] = 1 /\ Readable(f)
    /\ \E f \in Files : ~Readable(f)
    /\ totals.files_scanned = 2
    /\ totals.total_lines = 4

----------------------------------------------------------------------------
(* C5 *)

\* While an enumeration error travels up, nothing is scanned or printed, and
\* each step returns from exactly one walk_dir call, the last one ending the
\* process with code 1.
C5_Unwinding ==
    pc = "unwind" =>
        /\ ingested' = ingested
        /\ totals' = totals
        /\ stdout' = stdout
        /\ read_dirs' = read_dirs
        /\ read_dir_calls' = read_dir_calls
        /\ IF stack # <<>>
           THEN pc' = "unwind" /\ stack' = SubSeq(stack, 1, Len(stack) - 1)
           ELSE pc' = "exited" /\ exit_code' = 1

\* A run on a tree with a directory that cannot be enumerated ends with code
\* 1, an error message and no summary; that directory was never entered when
\* its read_dir fails.
C5_Outcome ==
    /\ (fs.fault.mode = "open") => fs.fault.dir \notin SeqToSet(read_dirs)
    /\ (Exited /\ fs.fault # NoFault /\ cfg.ext = None) =>
          /\ exit_code = 1
          /\ ~SummaryPrinted
          /\ stderr.error # None
          /\ stack = <<>>

\* C5: a failure to enumerate a directory, the root or one at any depth,
\* aborts the scan: from the failure on no file is ingested and no directory
\* read, the error is returned through every enclosing walk_dir call, no
\* summary is printed and the process exits with code 1.
C5_DirFailureAborts == []C5_Outcome /\ [][C5_Unwinding]_vars

\* The iterator of a directory two levels down failed after a file had been
\* ingested and with files still not visited; the process has exited with 1.
C5_Witness ==
    /\ Exited
    /\ exit_code = 1
    /\ fs.fault.dir # 0
    /\ Depth(fs.fault.dir) = 2
    /\ Len(ingested) >= 1
    /\ Len(ingested) < MaxFiles
    /\ Len(read_dirs) = MaxDirs

----------------------------------------------------------------------------
(* C1, C3, C4: ingestion *)

\* The files process_file has read, in the order it read them.
ReadFiles == SelectSeq(ingested, LAMBDA f : Readable(f))

\* The files process_file could not read, in the order it met them.
FailedFiles == SelectSeq(ingested, LAMBDA f : ~Readable(f))

\* The concatenation of the sequences of a sequence, in order.
RECURSIVE Flatten(_)
Flatten(ss) == IF ss = <<>> THEN <<>> ELSE Head(ss) \o Flatten(Tail(ss))

\* The 1-based numbers of the lines of a text that hold the term, both
\* lowercased.
MatchLines(text, term) ==
    LET lines == Lines(text)
        lower == to_lowercase(term)
    IN  {n \in 1..Len(lines) : Contains(to_lowercase(lines[n]), lower)}

\* The k smallest numbers of S, ascending.
Smallest(S, k) ==
    [i \in 1..k |-> CHOOSE n \in S : Cardinality({m \in S : m < n}) = i - 1]

\* The matching lines of all files read so far.
TotalMatches ==
    LET read == ReadFiles
    IN  SumFn([i \in 1..Len(read) |->
                  Cardinality(MatchLines(Content(read[i]), cfg.find[1]))])

\* The previews of one file: its first matching lines, five at most.
FilePreviews(f) ==
    LET M == MatchLines(Content(f), cfg.find[1])
        first == Smallest(M, Min(5, Cardinality(M)))
    IN  [i \in 1..Len(first) |-> [file |-> f, line_no |-> first[i]]]

\* C1 as stated: over the whole run min(5, matching lines of all files)
\* previews are printed, and the summary reports all matching lines.
C1_Original ==
    (Exited /\ SummaryPrinted /\ cfg.find # None) =>
        /\ Len(stdout.hits) = Min(5, TotalMatches)
        /\ stdout.summary[1].hits = Some(TotalMatches)

\* C1, amended: with a search term configured the cap of 5 previews holds
\* per file: each file read adds previews of its own first min(5, m)
\* matching lines (m its number of matching lines), so a run prints the sum
\* of min(5, m) over its files, while the hit count, in the totals and in the
\* summary, is the full number of matching lines of all files read.
C1_PerFileCap ==
    cfg.find # None =>
        LET read == ReadFiles
            total == TotalMatches
        IN  /\ stdout.hits = Flatten([i \in 1..Len(read) |-> FilePreviews(read[i])])
            /\ totals.hits = total
            /\ SummaryPrinted => stdout.summary[1].hits = Some(total)

\* A finished run that printed more than 5 previews: one file with more than
\* 5 matching lines gave exactly 5, and another file gave some more.
C1_Witness ==
    /\ Exited
    /\ SummaryPrinted
    /\ cfg.find # None
    /\ Len(stdout.hits) > 5
    /\ \E f, g \in Files :
          /\ f # g
          /\ Readable(f) /\ Cardinality(MatchLines(Content(f), cfg.find[1])) > 5
          /\ Cardinality({i \in 1..Len(stdout.hits) : stdout.hits[i].file = f}) = 5
          /\ \E i \in 1..Len(stdout.hits) : stdout.hits[i].file = g
    /\ totals.hits > Len(stdout.hits)

\* The tokens of all files read so far.
AllTokens ==
    LET read == ReadFiles
    IN  Flatten([i \in 1..Len(read) |-> tokenize_words(Content(read[i]))])

\* C3: at every point of a run, files that could not be read included, the
\* counts of word_counts add up to the number of tokens of the files read,
\* every count is positive and is the number of occurrences of its word, and
\* the keys are exactly the words that occurred.
C3_WordCounts ==
    LET tokens == AllTokens
    IN  /\ SumFn(totals.word_counts) = Len(tokens)
        /\ DOMAIN totals.word_counts = SeqToSet(tokens)
        /\ \A w \in DOMAIN totals.word_counts :
              /\ totals.word_counts[w] > 0
              /\ totals.word_counts[w] =
                    Cardinality({k \in 1..Len(tokens) : tokens[k] = w})

\* Two files were read and one could not be; a word occurs five times over
\* the files read, another word twice.
C3_Witness ==
    /\ Len(ReadFiles) = 2
    /\ Len(FailedFiles) = 1
    /\ \E w, v \in DOMAIN totals.word_counts :
          totals.word_counts[w] = 5 /\ totals.word_counts[v] = 2

\* The step in which process_file fails to read file f.
C4_ReadFails(f) == ingested' = Append(ingested, f) /\ ~Readable(f)

\* Such a step prints a diagnostic, leaves the totals, the output and the
\* exit code alone and goes on with the remaining entries of the directory.
C4_Skip ==
    \A f \in Files :
        C4_ReadFails(f) =>
            /\ totals' = totals
            /\ stdout' = stdout
            /\ exit_code' = exit_code
            /\ stderr' = [stderr EXCEPT !.could_not_read = Append(@, f)]
            /\ pc' = "walk"
            /\ stack' = [stack EXCEPT ![Len(stack)].todo = @ \ {FileEntry(f)}]

\* files_scanned counts the files read, not those that failed; and a run in
\* which no directory enumeration fails ends with the summary and code 0
\* after every file was handed to process_file, however many failed.
C4_Counts ==
    /\ totals.files_scanned = Len(ReadFiles)
    /\ stderr.could_not_read = FailedFiles
    /\ (Exited /\ fs.fault = NoFault) =>
          /\ exit_code = 0
          /\ SummaryPrinted
          /\ SeqToSet(ingested) = Files
          /\ stdout.summary[1].files = Len(ReadFiles)

\* C4: a file whose content cannot be read is skipped with a diagnostic and
\* changes no field of the totals; the traversal continues with the remaining
\* entries and the run still ends with the summary and exit code 0;
\* files_scanned counts only the files read.
C4_ReadFailureSkips == []C4_Counts /\ [][C4_Skip]_vars

\* A finished run with code 0 and a summary, in which a file failed to be
\* read before another one was read.
C4_Witness ==
    /\ Exited
    /\ exit_code = 0
    /\ SummaryPrinted
    /\ \E i, j \in 1..Len(ingested) :
          i < j /\ ~Readable(ingested[i]) /\ Readable(ingested[j])
    /\ totals.files_scanned = 2
    /\ totals.total_bytes > 0

----------------------------------------------------------------------------
(* C2: the extension filter *)

\* A filter value with one leading '.' removed, when it has one.
OneDotStripped(s) == IF Len(s) > 0 /\ s[1] = 46 THEN SubSeq(s, 2, Len(s)) ELSE s

\* A filter value without its leading '.'s, however many.
AllDotsStripped(s) ==
    LET lead == CHOOSE k \in 0..Len(s) :
                    /\ \A j \in 1..k : s[j] = 46
                    /\ (k = Len(s) \/ s[k + 1] # 46)
    IN  SubSeq(s, lead + 1, Len(s))

\* The extension of a file's name as text: empty when the name has no
\* extension and when the extension is not UTF-8.
ExtText(f) ==
    LET e == Extension(fs.fname[f])
    IN  IF e = None \/ \E k \in 1..Len(e[1]) : e[1][k] >= 128 THEN <<>> ELSE e[1]

\* C2 as stated: a file is ingested exactly when no filter is set or its
\* extension is the filter with its leading dot stripped, a file without
\* extension only when that is the empty string.
C2_OriginalPasses(f) ==
    \/ cfg.ext = None
    \/ LET e == Extension(fs.fname[f])
       IN  IF e = None THEN OneDotStripped(cfg.ext[1]) = <<>>
           ELSE e[1] = OneDotStripped(cfg.ext[1])

C2_Original ==
    (Exited /\ exit_code = 0) =>
        \A f \in Files : f \in SeqToSet(ingested) <=> C2_OriginalPasses(f)

C2_Passes(f) == cfg.ext = None \/ ExtText(f) = AllDotsStripped(cfg.ext[1])

\* C2, amended: a file met during traversal is handed to process_file if and
\* only if no extension filter is configured or the file's extension, taken
\* as the empty string when the file has none or when it is not valid UTF-8,
\* equals, case-sensitively, the configured filter with all of its leading
\* dots stripped.
C2_ExtFilter ==
    /\ \A f \in SeqToSet(ingested) : C2_Passes(f)
    /\ (Exited /\ exit_code = 0) =>
          \A f \in Files : f \in SeqToSet(ingested) <=> C2_Passes(f)

\* A finished run with a filter written with two leading dots, under which
\* the first file was ingested and another file was not.
C2_Witness ==
    /\ Exited
    /\ exit_code = 0
    /\ cfg.ext # None
    /\ Len(cfg.ext[1]) = 3
    /\ cfg.ext[1][1] = 46 /\ cfg.ext[1][2] = 46
    /\ 1 \in SeqToSet(ingested)
    /\ \E f \in Files : f \notin SeqToSet(ingested)

----------------------------------------------------------------------------
(* C6, C7: the command line *)

IsHelp(t) == t = S_help \/ t = S_h

ValueFlags == {S_path, S_ext, S_top, S_find}

\* The odd positions of the command line.
OddPos(a) == {k \in 1..Len(a) : k % 2 = 1}

\* Before the odd position k the command line is flag, value, flag, value,
\* ... with known flags and numeric --top values.
CleanBefore(a, k) ==
    \A j \in 1..(k - 1) :
        j % 2 = 1 =>
            /\ a[j] \in ValueFlags
            /\ a[j] = S_top => ParseUsize(a[j + 1]) # None

\* The parse meets -h or --help where it expects a flag, with no error before.
HelpReached(a) == \E k \in OddPos(a) : IsHelp(a[k]) /\ CleanBefore(a, k)

UnknownFlag(a) ==
    \E k \in OddPos(a) : a[k] \notin ValueFlags /\ ~IsHelp(a[k]) /\ CleanBefore(a, k)

MissingValue(a) ==
    Len(a) % 2 = 1 /\ a[Len(a)] \in ValueFlags /\ CleanBefore(a, Len(a))

BadTop(a) ==
    \E k \in OddPos(a) :
        k < Len(a) /\ a[k] = S_top /\ ParseUsize(a[k + 1]) = None /\ CleanBefore(a, k)

MissingPath(a) ==
    Len(a) % 2 = 0 /\ CleanBefore(a, Len(a) + 1) /\ \A k \in OddPos(a) : a[k] # S_path

ArgError(a) == UnknownFlag(a) \/ MissingValue(a) \/ BadTop(a) \/ MissingPath(a)

NothingScanned ==
    /\ read_dir_calls = 0
    /\ read_dirs = <<>>
    /\ ingested = <<>>
    /\ ~SummaryPrinted
    /\ stdout.hits = <<>>
    /\ totals = DefaultTotals

\* C6 as stated: with -h or --help anywhere in the command line the program
\* prints usage and exits with code 0 without scanning.
C6_Original ==
    (pc # "start" /\ \E i \in 1..Len(args) : IsHelp(args[i])) =>
        Exited /\ exit_code = 0 /\ stderr.usage /\ NothingScanned

\* C6, amended: the program prints usage and exits with code 0 without
\* scanning exactly when the left-to-right parse reaches -h or --help as a
\* flag: every argument before it is a known flag followed by its value, a
\* --top value parsing as a number. That holds whatever follows it and
\* whether or not --path was given; -h or --help after an unknown flag or an
\* unparsable --top value, or taken as the value of a flag, is not help.
C6_HelpWhenReached ==
    pc # "start" =>
        /\ HelpReached(args) <=>
              (Exited /\ exit_code = 0 /\ stderr.usage /\ read_dir_calls = 0)
        /\ HelpReached(args) => NothingScanned /\ stderr.error = None

\* --find a -h --x: help reached after a valid flag, without --path and with
\* an unknown flag after it; the process has exited with code 0.
C6_Witness ==
    /\ Exited
    /\ exit_code = 0
    /\ stderr.usage
    /\ Len(args) = 4
    /\ args[1] = S_find
    /\ args[3] = S_h
    /\ args[4] \notin ValueFlags /\ ~IsHelp(args[4])

\* C7: every argument error (an unknown flag, a flag without its value, a
\* --top value that does not parse, no --path) ends the process with code 2,
\* after the error message and usage, before any directory is read, any file
\* ingested or any summary printed; and code 2 means an argument error.
C7_ArgErrorsExit2 ==
    pc # "start" =>
        /\ ArgError(args) =>
              /\ Exited
              /\ exit_code = 2
              /\ stderr.usage
              /\ NothingScanned
              /\ UnknownFlag(args) => stderr.error = Some("Unknown flag")
              /\ BadTop(args) => stderr.error = Some("Invalid number for --top")
              /\ MissingPath(args) =>
                    stderr.error = Some("You must provide --path <folder>")
              /\ MissingValue(args) =>
                    stderr.error \in {Some("Missing value for --path"),
                                      Some("Missing value for --ext"),
                                      Some("Missing value for --top"),
                                      Some("Missing value for --find")}
        /\ exit_code = 2 => ArgError(args)

\* --path r --top a: a valid --path, then a --top value that is no number;
\* the process has exited with code 2.
C7_Witness ==
    /\ Exited
    /\ exit_code = 2
    /\ args = <<S_path, RootPath, S_top, <<97>>>>
    /\ stderr.error = Some("Invalid number for --top")

----------------------------------------------------------------------------
(* C8: the report *)

\* The listing has min(N, distinct words) entries with their counts, highest
\* counts first, no unlisted word counted higher than a listed one.
C8_Ranked ==
    SummaryPrinted =>
        LET s == stdout.summary[1]
            wc == totals.word_counts
            listed == {s.words[i].word : i \in 1..Len(s.words)}
        IN  /\ Len(s.words) = Min(s.top, Cardinality(DOMAIN wc))
            /\ NoRepeats([i \in 1..Len(s.words) |-> s.words[i].word])
            /\ \A i \in 1..Len(s.words) :
                  /\ s.words[i].word \in DOMAIN wc
                  /\ s.words[i].count = wc[s.words[i].word]
                  /\ \A j \in 1..Len(s.words) :
                        i < j => s.words[i].count >= s.words[j].count
                  /\ \A w \in DOMAIN wc \ listed : wc[w] <= s.words[i].count

\* C8: the listing has min(N, distinct words) ranked words, highest counts
\* first, each at least as frequent as any word not listed, and it is
\* determined by the word counts alone: whatever order the map iterates in,
\* the same words are listed in the same order, words of equal counts too.
C8_Original ==
    /\ C8_Ranked
    /\ SummaryPrinted =>
          \A order \in IterOrders(DOMAIN totals.word_counts) :
              TopWords(totals.word_counts, order, stdout.summary[1].top)
                  = stdout.summary[1].words

====
